---- MODULE Spec2Model ----
(***************************************************************************)
(* State-machine model of model/train-model.py: the single-pass pipeline   *)
(*   load -> pad -> build -> fit (15 epochs, ReduceLROnPlateau) ->         *)
(*   evaluate -> save -> load_model -> tfjs convert -> vocab.json ->       *)
(*   metadata.json.                                                        *)
(* Library calls are modelled by the behaviour the call sites select       *)
(* (their explicit arguments and the library defaults for the rest).       *)
(*                                                                         *)
(* Units: learning rates are integers in units of 1e-7 (0.001 = 10000,     *)
(* 0.0001 = 1000); validation losses are integers in units of 1e-4         *)
(* (0.5 = 5000, 0.49 = 4900), so ReduceLROnPlateau's default               *)
(* min_delta = 1e-4 is 1.                                                  *)
(***************************************************************************)
EXTENDS Integers, Sequences, FiniteSets, TLC

VARIABLES
    pc,             \* position in the script
    corpus_x,       \* the stored review: word ranks, as in the dataset file
    train_x,        \* train_x of the script (one example)
    loss_space,     \* validation-loss values the run can produce
    model,          \* what the name `model` is bound to
    lr,             \* optimizer learning rate (0 = optimizer not built)
    epoch,          \* epochs completed by fit
    best, wait,     \* ReduceLROnPlateau.best / .wait
    stop_training,  \* model.stop_training
    val_part,       \* indices of the training partition held out by validation_split
    split_draws,    \* how many times the split was drawn
    val_used,       \* the validation sets the epochs have used
    test_reads,     \* the stages that have read the test partition
    test_evals,     \* number of model.evaluate passes over the test partition
    no_imp, prev_no_imp,    \* last / previous epoch did not improve val_loss
    reduced, prev_reduced,  \* last / previous epoch reduced the learning rate
    lr_before,      \* learning rate when the last epoch ended, before the callback
    scen,           \* length of the prefix of Scenario the losses have followed (-1: left it)
    disk,           \* state of each artifact on the file system
    attempts,       \* how many times each export step was started
    failed_at,      \* the export step that raised ("none" when none did)
    converted_from, \* which model object was handed to the tfjs converter
    vocab_json,     \* content written to vocab.json
    metadata_json   \* content written to metadata.json

vars == <<pc, corpus_x, train_x, loss_space, model, lr, epoch, best, wait,
          stop_training, val_part, split_draws, val_used, test_reads, test_evals,
          no_imp, prev_no_imp, reduced, prev_reduced, lr_before, scen,
          disk, attempts, failed_at, converted_from, vocab_json, metadata_json>>

dataVars  == <<corpus_x, train_x, loss_space>>
trainVars == <<lr, epoch, best, wait, stop_training, val_part, split_draws, val_used,
               no_imp, prev_no_imp, reduced, prev_reduced, lr_before, scen>>
testVars  == <<test_reads, test_evals>>
exportVars == <<disk, attempts, failed_at, converted_from, vocab_json, metadata_json>>

(***************************************************************************)
(* Bounds of the model.  NUM_WORDS and MAX_LEN are 20000 and 200 in the    *)
(* script (lines 15-16); the model runs the same code on a scaled-down     *)
(* vocabulary cap and sequence length.                                     *)
(***************************************************************************)
NUM_WORDS   == 6
MAX_LEN     == 3
MaxRawLen   == 4
MaxLossStep == 2
NumTrain    == 5

\* Program constants.
EPOCHS     == 15
INIT_LR    == 10000
MIN_LR     == 1000
PATIENCE   == 2
MIN_DELTA  == 1
INDEX_FROM == 3
START_CHAR == 1
OOV_CHAR   == 2

Max(a, b) == IF a >= b THEN a ELSE b

\* The words of the corpus, each named by its frequency rank; the corpus holds
\* more words than the cap keeps.
VocabSize == NUM_WORDS + 1
Words == 1..VocabSize

\* imdb.get_word_index(): word -> frequency rank, 1-based.
word_index == [w \in Words |-> w]

(***************************************************************************)
(* imdb.load_data(num_words=NUM_WORDS): start_char=1 is prepended, every   *)
(* rank is shifted by index_from=3, and ids >= num_words become oov_char=2.*)
(***************************************************************************)
TrainId(w) ==
    IF word_index[w] + INDEX_FROM < NUM_WORDS THEN word_index[w] + INDEX_FROM
    ELSE OOV_CHAR

load_data(review) ==
    <<START_CHAR>> \o [i \in 1..Len(review) |-> TrainId(review[i])]

(***************************************************************************)
(* keras pad_sequences for one sequence, value = 0: the sequence is cut to *)
(* maxlen on the side `truncating` names and laid into a zero row on the   *)
(* side opposite to the one `padding` names.                               *)
(***************************************************************************)
Zeros(n) == [i \in 1..n |-> 0]

pad_sequences(s, maxlen, padding, truncating) ==
    LET trunc == IF Len(s) <= maxlen THEN s
                 ELSE IF truncating = "pre"
                      THEN SubSeq(s, Len(s) - maxlen + 1, Len(s))
                      ELSE SubSeq(s, 1, maxlen)
        fill == Zeros(maxlen - Len(trunc))
    IN  IF padding = "post" THEN trunc \o fill ELSE fill \o trunc

encode_pre_trunc(s, maxlen) == pad_sequences(s, maxlen, "post", "pre")
encode_pre_pad(s, maxlen) == pad_sequences(s, maxlen, "pre", "post")
\* The call of lines 27-28: padding='post', truncating='post'.
encode(s, maxlen) == pad_sequences(s, maxlen, "post", "post")

Artifacts == {"h5", "tfjs", "vocab", "metadata"}

\* The validation losses an epoch can report: 0.5, 0.49 and a few values just below.
Losses == {5000, 4900} \cup {4900 - k : k \in 1..MaxLossStep}
Scenario == <<5000, 4900, 4900, 4900>>
NoBest == 2 * 5000

Reviews == UNION {[1..n -> Words] : n \in 0..MaxRawLen}

InitRest ==
    /\ pc = "load"
    /\ train_x = <<>>
    /\ model = "none"
    /\ lr = 0
    /\ epoch = 0
    /\ best = NoBest
    /\ wait = 0
    /\ stop_training = FALSE
    /\ val_part = {}
    /\ split_draws = 0
    /\ val_used = {}
    /\ test_reads = {}
    /\ test_evals = 0
    /\ no_imp = FALSE
    /\ prev_no_imp = FALSE
    /\ reduced = FALSE
    /\ prev_reduced = FALSE
    /\ lr_before = 0
    /\ scen = 0
    /\ attempts = [s \in {"save", "load_model", "convert", "vocab", "metadata"} |-> 0]
    /\ failed_at = "none"
    /\ converted_from = "none"
    /\ vocab_json = <<>>
    /\ metadata_json = <<>>

\* A run over one fixed review, every validation-loss sequence, and a file
\* system that may hold artifacts of an earlier run.
Init ==
    /\ corpus_x = <<1, NUM_WORDS - INDEX_FROM>>
    /\ loss_space = Losses
    /\ disk \in [Artifacts -> {"absent", "stale"}]
    /\ InitRest

\* A run over every review up to MaxRawLen words, with a flat validation loss.
InitData ==
    /\ corpus_x \in Reviews
    /\ loss_space = {5000}
    /\ disk = [a \in Artifacts |-> "absent"]
    /\ InitRest

\* Line 23.
LoadData ==
    /\ pc = "load"
    /\ train_x' = load_data(corpus_x)
    /\ pc' = "pad"
    /\ UNCHANGED <<corpus_x, loss_space, model>>
    /\ UNCHANGED <<trainVars, testVars, exportVars>>

\* Lines 27-28.
PadSequences ==
    /\ pc = "pad"
    /\ train_x' = encode(train_x, MAX_LEN)
    /\ pc' = "build"
    /\ UNCHANGED <<corpus_x, loss_space, model>>
    /\ UNCHANGED <<trainVars, testVars, exportVars>>

\* Keras train_validation_split: the last validation_split (20%) of the samples,
\* taken by position before any shuffling; split_at = floor(n * (1 - 0.2)).
SplitAt(n) == (n * 8) \div 10
ValidationPart == (SplitAt(NumTrain) + 1)..NumTrain
TrainPart == 1..SplitAt(NumTrain)

ValidationSet_test == "test"
\* Line 70: validation data is validation_split=0.2 of (train_x, train_y).
ValidationSet == "train_split"

StopRequested_early(w) == w >= PATIENCE
\* Line 73: callbacks=[lr_scheduler]; ReduceLROnPlateau never sets
\* model.stop_training, and the imported EarlyStopping is not in the list.
StopRequested(w) == FALSE

\* ReduceLROnPlateau.monitor_op in 'min' mode: np.less(current, best - min_delta).
Improved(current, b) == current < b - MIN_DELTA

ReduceNow_late(w, rate) == w > PATIENCE /\ rate > MIN_LR
\* ReduceLROnPlateau.on_epoch_end: `if self.wait >= self.patience` and
\* `if old_lr > self.min_lr`.
ReduceNow(w, rate) == w >= PATIENCE /\ rate > MIN_LR

NewLr_unfloored(rate) == rate \div 2
\* new_lr = max(old_lr * factor, min_lr), factor = 0.5.
NewLr(rate) == Max(rate \div 2, MIN_LR)

\* Lines 33-52: the model is built and compiled with Adam(learning_rate=0.001).
BuildModel ==
    /\ pc = "build"
    /\ model' = "built"
    /\ lr' = INIT_LR
    /\ pc' = "fit"
    /\ UNCHANGED <<dataVars, testVars, exportVars>>
    /\ UNCHANGED <<epoch, best, wait, stop_training, val_part, split_draws, val_used,
                   no_imp, prev_no_imp, reduced, prev_reduced, lr_before, scen>>

\* Line 68, entry of model.fit: the validation split is drawn once, and
\* on_train_begin resets the callback (best = inf, wait = 0).
FitBegin ==
    /\ pc = "fit"
    /\ val_part' = ValidationPart
    /\ split_draws' = split_draws + 1
    /\ best' = NoBest
    /\ wait' = 0
    /\ pc' = "epoch"
    /\ UNCHANGED <<dataVars, model, testVars, exportVars>>
    /\ UNCHANGED <<lr, epoch, stop_training, val_used,
                   no_imp, prev_no_imp, reduced, prev_reduced, lr_before, scen>>

\* One epoch of model.fit followed by ReduceLROnPlateau.on_epoch_end(val_loss = v)
\* (cooldown = 0, so the callback is never in cooldown).
FitEpoch ==
    /\ pc = "epoch"
    /\ epoch < EPOCHS
    /\ ~stop_training
    /\ \E v \in loss_space :
        LET w == wait + 1 IN
        /\ epoch' = epoch + 1
        /\ val_used' = val_used \cup {val_part}
        /\ test_reads' = IF ValidationSet = "test"
                         THEN test_reads \cup {"validation"} ELSE test_reads
        /\ lr_before' = lr
        /\ no_imp' = ~Improved(v, best)
        /\ prev_no_imp' = no_imp
        /\ prev_reduced' = reduced
        /\ scen' = IF scen >= 0 /\ scen < Len(Scenario) /\ Scenario[scen + 1] = v
                   THEN scen + 1 ELSE -1
        /\ IF Improved(v, best)
           THEN /\ best' = v
                /\ wait' = 0
                /\ lr' = lr
                /\ reduced' = FALSE
           ELSE /\ best' = best
                /\ IF ReduceNow(w, lr)
                   THEN /\ lr' = NewLr(lr)
                        /\ wait' = 0
                        /\ reduced' = TRUE
                   ELSE /\ lr' = lr
                        /\ wait' = w
                        /\ reduced' = FALSE
        /\ stop_training' = StopRequested(wait')
    /\ UNCHANGED <<pc, dataVars, model, test_evals, val_part, split_draws, exportVars>>

\* model.fit returns: the epoch budget is used up, or a callback asked to stop.
FitReturn ==
    /\ pc = "epoch"
    /\ epoch = EPOCHS \/ stop_training
    /\ model' = "trained"
    /\ pc' = "evaluate"
    /\ UNCHANGED <<dataVars, trainVars, testVars, exportVars>>

\* Line 78: model.evaluate(test_x, test_y).
Evaluate ==
    /\ pc = "evaluate"
    /\ test_evals' = test_evals + 1
    /\ test_reads' = test_reads \cup {"evaluate"}
    /\ pc' = "save"
    /\ UNCHANGED <<dataVars, model, trainVars, exportVars>>

(***************************************************************************)
(* Export, lines 84-119.  Every step can raise (disk full, unreadable      *)
(* file, converter error, word-index download failure); the script has no  *)
(* try/except, so an exception ends the process.  A write that raises      *)
(* leaves its target as it was or partially written.                       *)
(***************************************************************************)
StepOrder == <<"save", "load_model", "convert", "vocab", "metadata">>
Steps == {StepOrder[i] : i \in 1..Len(StepOrder)}
Pos(s) == CHOOSE i \in 1..Len(StepOrder) : StepOrder[i] = s

OnFailure_swallowed(next) == next
\* An uncaught exception: nothing after the raising statement runs.
OnFailure(next) == "aborted"

ModelAfterReload_unbound == "trained"
\* Line 88 rebinds the name `model` to the object load_model returns.
ModelAfterReload == "reloaded"

Begin(step) ==
    /\ pc = step
    /\ attempts' = [attempts EXCEPT ![step] = @ + 1]

Raise(step, next) ==
    /\ failed_at' = step
    /\ pc' = OnFailure(next)

\* Lines 84-86: model.save("sentiment_model.h5").
SaveModel ==
    /\ Begin("save")
    /\ disk' = [disk EXCEPT !["h5"] = "fresh"]
    /\ pc' = "load_model"
    /\ UNCHANGED <<dataVars, model, trainVars, testVars,
                   failed_at, converted_from, vocab_json, metadata_json>>

SaveModelFails ==
    /\ Begin("save")
    /\ \E left \in {disk["h5"], "partial"} : disk' = [disk EXCEPT !["h5"] = left]
    /\ Raise("save", "load_model")
    /\ UNCHANGED <<dataVars, model, trainVars, testVars,
                   converted_from, vocab_json, metadata_json>>

\* Line 88: model = tf.keras.models.load_model("sentiment_model.h5").
LoadModel ==
    /\ Begin("load_model")
    /\ disk["h5"] = "fresh"
    /\ model' = ModelAfterReload
    /\ pc' = "convert"
    /\ UNCHANGED <<dataVars, trainVars, testVars,
                   disk, failed_at, converted_from, vocab_json, metadata_json>>

LoadModelFails ==
    /\ Begin("load_model")
    /\ Raise("load_model", "convert")
    /\ UNCHANGED <<dataVars, model, trainVars, testVars,
                   disk, converted_from, vocab_json, metadata_json>>

\* Lines 93-97: os.makedirs(tfjs_out, exist_ok=True);
\* tfjs.converters.save_keras_model(model, tfjs_out).
Convert ==
    /\ Begin("convert")
    /\ converted_from' = model
    /\ disk' = [disk EXCEPT !["tfjs"] = "fresh"]
    /\ pc' = "vocab"
    /\ UNCHANGED <<dataVars, model, trainVars, testVars,
                   failed_at, vocab_json, metadata_json>>

ConvertFails ==
    /\ Begin("convert")
    /\ \E left \in {disk["tfjs"], "partial"} : disk' = [disk EXCEPT !["tfjs"] = left]
    /\ \E given \in {converted_from, model} : converted_from' = given
    /\ Raise("convert", "vocab")
    /\ UNCHANGED <<dataVars, model, trainVars, testVars, vocab_json, metadata_json>>

\* Line 104: the words whose rank is below NUM_WORDS, with their ranks.
top_words ==
    LET kept == {w \in DOMAIN word_index : word_index[w] < NUM_WORDS}
    IN  [w \in kept |-> word_index[w]]

\* Lines 103-106.
DumpVocab ==
    /\ Begin("vocab")
    /\ vocab_json' = top_words
    /\ disk' = [disk EXCEPT !["vocab"] = "fresh"]
    /\ pc' = "metadata"
    /\ UNCHANGED <<dataVars, model, trainVars, testVars,
                   failed_at, converted_from, metadata_json>>

DumpVocabFails ==
    /\ Begin("vocab")
    /\ \E left \in {disk["vocab"], "partial"} : disk' = [disk EXCEPT !["vocab"] = left]
    /\ Raise("vocab", "metadata")
    /\ UNCHANGED <<dataVars, model, trainVars, testVars,
                   converted_from, vocab_json, metadata_json>>

\* Lines 108-115.
metadata ==
    [num_words |-> NUM_WORDS, max_len |-> MAX_LEN, index_from |-> 3,
     pad_id |-> 0, start_id |-> 1, oov_id |-> 2]

\* Lines 108-119.
DumpMetadata ==
    /\ Begin("metadata")
    /\ metadata_json' = metadata
    /\ disk' = [disk EXCEPT !["metadata"] = "fresh"]
    /\ pc' = "done"
    /\ UNCHANGED <<dataVars, model, trainVars, testVars,
                   failed_at, converted_from, vocab_json>>

DumpMetadataFails ==
    /\ Begin("metadata")
    /\ \E left \in {disk["metadata"], "partial"} :
           disk' = [disk EXCEPT !["metadata"] = left]
    /\ Raise("metadata", "done")
    /\ UNCHANGED <<dataVars, model, trainVars, testVars,
                   converted_from, vocab_json, metadata_json>>

Next ==
    \/ LoadData
    \/ PadSequences
    \/ BuildModel
    \/ FitBegin
    \/ FitEpoch
    \/ FitReturn
    \/ Evaluate
    \/ SaveModel
    \/ SaveModelFails
    \/ LoadModel
    \/ LoadModelFails
    \/ Convert
    \/ ConvertFails
    \/ DumpVocab
    \/ DumpVocabFails
    \/ DumpMetadata
    \/ DumpMetadataFails

Spec == Init /\ [][Next]_vars

SpecData == InitData /\ [][Next]_vars

(***************************************************************************)
(* Properties.                                                             *)
(***************************************************************************)
Loaded == load_data(corpus_x)
Padded == pc \notin {"load", "pad"}
Fitting == pc \notin {"load", "pad", "build"}
AfterFit == pc \notin {"load", "pad", "build", "fit", "epoch"}
AfterEvaluate == pc \notin {"load", "pad", "build", "fit", "epoch", "evaluate"}

\* A tokenizer outside the training environment, reading only the two
\* exported files: id = vocab.json[word] + index_from, oov_id for a word the
\* file does not hold.
ExternalId(w) ==
    IF w \in DOMAIN vocab_json THEN vocab_json[w] + metadata_json.index_from
    ELSE metadata_json.oov_id

\* Decoding one id with the exported files alone: 0 for padding, -1 for the
\* start marker, -2 for out-of-vocabulary, -3 for an id no entry explains,
\* and otherwise the word whose exported id it is.
Decode(id) ==
    IF id = metadata_json.pad_id THEN 0
    ELSE IF id = metadata_json.start_id THEN -1
    ELSE IF id = metadata_json.oov_id THEN -2
    ELSE IF \E w \in DOMAIN vocab_json : vocab_json[w] + metadata_json.index_from = id
         THEN CHOOSE w \in DOMAIN vocab_json :
                  vocab_json[w] + metadata_json.index_from = id
         ELSE -3

\* C1: in the vocabulary written to vocab.json every id is below num_words,
\* no two keys share an id, and none of the reserved ids 0, 1, 2 is exported.
C1_VocabExportInvariant ==
    disk["vocab"] = "fresh" =>
        /\ \A w \in DOMAIN vocab_json : vocab_json[w] < NUM_WORDS
        /\ \A w1, w2 \in DOMAIN vocab_json :
               w1 # w2 => vocab_json[w1] # vocab_json[w2]
        /\ \A w \in DOMAIN vocab_json : vocab_json[w] \notin {0, 1, 2}

\* C2: the exported vocabulary and metadata reproduce the training-time
\* encoding: every exported token gets from the external tokenizer the id the
\* training-side loader gave it, which is not the OOV id, and a review made
\* of exported tokens decodes from its encoded tensor back to itself, up to
\* truncation and padding.
C2_BundleReproducesEncoding ==
    pc = "done" =>
        /\ metadata_json = [num_words |-> NUM_WORDS, max_len |-> MAX_LEN,
                            index_from |-> 3, pad_id |-> 0, start_id |-> 1,
                            oov_id |-> 2]
        /\ \A w \in DOMAIN vocab_json :
               /\ ExternalId(w) = TrainId(w)
               /\ TrainId(w) # metadata_json.oov_id
        /\ (\A i \in 1..Len(corpus_x) : corpus_x[i] \in DOMAIN vocab_json) =>
               [i \in 1..Len(train_x) |-> Decode(train_x[i])]
                   = encode(<<-1>> \o corpus_x, metadata_json.max_len)

\* C3: a sequence no longer than max_len is encoded to itself followed by
\* padding zeros up to length max_len; a sequence of length max_len is
\* unchanged, the empty sequence gives all zeros, and [4,5] with max_len 5
\* gives [4,5,0,0,0].
C3_PadShort ==
    /\ (Padded /\ Len(Loaded) <= MAX_LEN) =>
           /\ Len(train_x) = MAX_LEN
           /\ train_x = Loaded \o Zeros(MAX_LEN - Len(Loaded))
           /\ Len(Loaded) = MAX_LEN => train_x = Loaded
    /\ encode(<<>>, MAX_LEN) = Zeros(MAX_LEN)
    /\ encode(<<4, 5>>, 5) = <<4, 5, 0, 0, 0>>

C3_Witness ==
    /\ pc = "build"
    /\ Len(corpus_x) >= 1
    /\ Len(Loaded) < MAX_LEN
    /\ train_x[1] = START_CHAR
    /\ train_x[MAX_LEN] = 0

\* C4: a sequence longer than max_len is encoded to its first max_len
\* elements, in order; [4,5,6,7,8,9] with max_len 5 gives [4,5,6,7,8].
C4_TruncateTail ==
    /\ (Padded /\ Len(Loaded) > MAX_LEN) =>
           /\ Len(train_x) = MAX_LEN
           /\ \A i \in 1..MAX_LEN : train_x[i] = Loaded[i]
    /\ encode(<<4, 5, 6, 7, 8, 9>>, 5) = <<4, 5, 6, 7, 8>>

C4_Witness ==
    /\ pc = "build"
    /\ Len(Loaded) > MAX_LEN
    /\ \A i \in 1..MAX_LEN : train_x[i] # Loaded[Len(Loaded)]

\* C5 as stated: after each epoch the learning rate is halved exactly when
\* the validation loss has not improved for 2 consecutive epochs, and for the
\* losses [0.5, 0.49, 0.49, 0.49] the only halving is the one that follows
\* the two non-improving epochs.
C5_HalvedExactlyWhenTwoFlat ==
    (Fitting /\ epoch >= 1) =>
        /\ reduced <=> (no_imp /\ prev_no_imp)
        /\ reduced => 2 * lr = lr_before
        /\ ~reduced => lr = lr_before
        /\ scen \in 1..3 => lr = INIT_LR
        /\ scen = 4 => (reduced /\ 2 * lr = INIT_LR)

\* C5 amended: after each epoch the learning rate is reduced exactly when
\* this epoch and the one before it did not improve on the best validation
\* loss by more than 1e-4, the previous epoch made no reduction, and the rate
\* is above 0.0001; the new rate is max(rate / 2, 0.0001).  For the losses
\* [0.5, 0.49, 0.49, 0.49] from 0.001 the rate stays 0.001 through the first
\* three epochs and is halved at the end of the fourth.
C5_ReduceTiming ==
    (Fitting /\ epoch >= 1) =>
        /\ reduced <=> (no_imp /\ prev_no_imp /\ ~prev_reduced /\ lr_before > MIN_LR)
        /\ reduced => lr = Max(lr_before \div 2, MIN_LR)
        /\ ~reduced => lr = lr_before
        /\ scen \in 1..3 => (lr = INIT_LR /\ ~reduced)
        /\ scen = 4 => (reduced /\ 2 * lr = INIT_LR /\ epoch = 4)

C5_Witness ==
    /\ scen = 4
    /\ reduced
    /\ lr_before = INIT_LR

\* C6: the learning rate starts at 0.001, never increases, and after every
\* epoch is at least 0.0001; a halving that would go below is clamped.
C6_LrFloor ==
    Fitting =>
        /\ lr >= MIN_LR
        /\ lr <= INIT_LR
        /\ epoch = 0 => lr = INIT_LR
        /\ epoch >= 1 =>
               /\ lr <= lr_before
               /\ (reduced /\ lr_before \div 2 < MIN_LR) => lr = MIN_LR

C6_Witness ==
    /\ lr = MIN_LR
    /\ wait > PATIENCE
    /\ no_imp
    /\ ~reduced

\* C7: fit returns after exactly 15 epochs for every validation-loss
\* sequence: nothing asks it to stop sooner, and learning-rate reductions
\* (the floor included) neither stop nor extend the run.
C7_FixedEpochBudget ==
    /\ ~stop_training
    /\ epoch <= EPOCHS
    /\ AfterFit => (epoch = EPOCHS /\ epoch = 15)
    /\ (pc = "epoch" /\ epoch < EPOCHS) => model = "built"

C7_Witness ==
    /\ pc = "evaluate"
    /\ epoch = 15
    /\ lr = MIN_LR
    /\ wait >= PATIENCE

\* C8: the test partition is evaluated once, after all epochs and before any
\* export step, and no training or validation step reads it; the validation
\* split is drawn once from the training partition and every epoch uses it.
C8_TestEvaluatedOnce ==
    /\ test_evals <= 1
    /\ test_evals = 1 <=> AfterEvaluate
    /\ test_evals = 1 => (epoch = EPOCHS /\ model # "built")
    /\ test_evals = 0 =>
           /\ \A s \in Steps : attempts[s] = 0
           /\ \A a \in Artifacts : disk[a] \in {"absent", "stale"}
    /\ test_reads \subseteq {"evaluate"}
    /\ split_draws <= 1
    /\ epoch >= 1 => (split_draws = 1 /\ val_used = {val_part})
    /\ split_draws = 1 =>
           /\ val_part # {}
           /\ val_part \cap TrainPart = {}
           /\ val_part \cup TrainPart = 1..NumTrain

C8_Witness ==
    /\ pc = "save"
    /\ test_evals = 1
    /\ test_reads = {"evaluate"}
    /\ val_used = {val_part}

\* C9: the conversion starts only after the checkpoint was saved and
\* reloaded, it converts the reloaded model, and vocab.json and
\* metadata.json are written only after the conversion.
C9_ExportOrdering ==
    /\ attempts["convert"] > 0 =>
           /\ disk["h5"] = "fresh"
           /\ attempts["save"] = 1
           /\ attempts["load_model"] = 1
           /\ model = "reloaded"
    /\ converted_from # "none" => converted_from = "reloaded"
    /\ (attempts["vocab"] > 0 \/ attempts["metadata"] > 0) =>
           /\ disk["tfjs"] = "fresh"
           /\ converted_from = "reloaded"

C9_Witness ==
    /\ pc = "done"
    /\ converted_from = "reloaded"
    /\ disk["vocab"] = "fresh"

\* C10: a failing export step ends the run: no step is retried, no later step
\* runs, and the run is complete only when the checkpoint, the graph
\* directory, vocab.json and metadata.json have all been written.
C10_AllOrNothing ==
    /\ \A s \in Steps : attempts[s] <= 1
    /\ pc = "done" =>
           /\ failed_at = "none"
           /\ \A a \in Artifacts : disk[a] = "fresh"
    /\ pc = "aborted" <=> failed_at # "none"
    /\ failed_at # "none" =>
           /\ attempts[failed_at] = 1
           /\ \A s \in Steps : Pos(s) > Pos(failed_at) => attempts[s] = 0
           /\ \E a \in Artifacts : disk[a] # "fresh"

C10_Witness ==
    /\ pc = "aborted"
    /\ failed_at = "convert"
    /\ disk["h5"] = "fresh"
    /\ disk["tfjs"] = "partial"
    /\ disk["vocab"] = "stale"

====
